---------------------------- MODULE Spec2Model ----------------------------
(***************************************************************************)
(* Model of the plywood catalog front end (keval1903/price):               *)
(*   - parseCSV, the hand-rolled CSV decoder (src/src/PlywoodSimple.js     *)
(*     lines 45-77 and, character for character the same algorithm,        *)
(*     src/unnamed/part_000 lines 18-55);                                  *)
(*   - escapeHTML / formatDescriptionToHtml, the description formatter     *)
(*     (src/src/PlywoodSimple.js lines 16-41);                             *)
(*   - fetchCsv / fetchSheet, the sheet fetch of the two components, and   *)
(*     adminRequest, which refetches the sheet (src/unnamed/part_000).     *)
(*                                                                         *)
(* A JavaScript string is a sequence of one-character strings; the JS      *)
(* index i is 0-based, so raw[i] of the source is raw[i + 1] here.  A JS   *)
(* object is the sequence of its own (key, value) pairs in the order       *)
(* Object.keys enumerates them.                                            *)
(***************************************************************************)
EXTENDS Integers, Sequences, FiniteSets, TLC

VARIABLES
    raw,        \* parseCSV: the argument
    i,          \* parseCSV: scan index (0-based)
    cur,        \* parseCSV: current field buffer
    row,        \* parseCSV: fields of the current row
    rows,       \* parseCSV: completed rows
    inQuotes,   \* parseCSV: inside a quoted field
    pc,         \* parseCSV: "scan" (while loop), "flush" (line 69), "build" (70-76), "done"
    out,        \* parseCSV: the returned array of records
    desc,       \* formatter: the argument (a string, or undefined)
    fpc,        \* formatDescriptionToHtml: "call", "escape" (line 28), "returned", "threw"
    fret,       \* formatDescriptionToHtml: the returned string
    ferr,       \* formatDescriptionToHtml: the error thrown, "none" when none
    epc,        \* escapeHTML: "call", "returned"
    esc,        \* escapeHTML: the returned string
    component,  \* which component is mounted: "PlywoodSimple" or "PlywoodSinglePhoto"
    csvUrlOk,   \* CSV_URL is set and does not contain "REPLACE_WITH"
    mounted,    \* the mount effect has run
    items,      \* useState: the records shown
    rowsFlat,   \* useState (PlywoodSinglePhoto): all decoded records
    loading,    \* useState
    error,      \* useState: null or a message
    started,    \* number of network requests issued by the fetch so far
    pending,    \* the requests whose response has not arrived
    resText,    \* the body of the response applied last, undefined before the first
    answered,   \* what the network answered to each request answered so far
    busy,       \* useState (PlywoodSinglePhoto): an admin request is being sent
    message,    \* useState (PlywoodSinglePhoto): null or the admin banner
    adminPending \* admin requests whose response has not arrived

csvVars == <<raw, i, cur, row, rows, inQuotes, pc, out>>

fmtVars == <<desc, fpc, fret, ferr, epc, esc>>

fetchVars == <<component, csvUrlOk, mounted, items, rowsFlat, loading, error, started,
               pending, resText, answered, busy, message, adminPending>>

(***************************************************************************)
(* Bounds of the model.                                                    *)
(***************************************************************************)
MaxLen == 5

\* The characters inputs are drawn from: an ordinary letter, a digit (an
\* integer-like property name when it is a header cell), a blank, and the four
\* characters the scanner treats specially.
Alphabet == {"a", "1", " ", ",", "\"", "\n", "\r"}

RECURSIVE StringsUpTo(_)
StringsUpTo(n) ==
    IF n = 0 THEN {<<>>}
    ELSE LET shorter == StringsUpTo(n - 1)
         IN  shorter \cup {Append(s, c) : s \in {t \in shorter : Len(t) = n - 1}, c \in Alphabet}

\* The property name whose assignment on a plain object sets no own property.
ProtoKey == <<"_", "_", "p", "r", "o", "t", "o", "_", "_">>

\* Sheets with a column named __proto__: alone, and beside another column.
NamedInputs ==
    { ProtoKey \o <<"\n", "1">>,
      ProtoKey \o <<",", "a", "\n", "1", ",", " ", "a">> }

\* The arguments of parseCSV: every string over Alphabet up to MaxLen
\* characters, and the sheets above.
Inputs == StringsUpTo(MaxLen) \cup NamedInputs

(***************************************************************************)
(* JavaScript primitives the code relies on.                               *)
(***************************************************************************)
\* The value of an out-of-range string index and of a missing property.
Undefined == "undefined"

\* raw[i] for a 0-based i: a character, or undefined past the end.
CharAt(s, k) == IF k >= 0 /\ k < Len(s) THEN s[k + 1] ELSE Undefined

\* The characters String.prototype.trim strips (WhiteSpace and LineTerminator).
WhiteSpace == {" ", "\t", "\n", "\r", "\f"}

RECURSIVE TrimStart(_)
TrimStart(s) ==
    IF s # <<>> /\ Head(s) \in WhiteSpace THEN TrimStart(Tail(s)) ELSE s

RECURSIVE TrimEnd(_)
TrimEnd(s) ==
    IF s # <<>> /\ s[Len(s)] \in WhiteSpace THEN TrimEnd(SubSeq(s, 1, Len(s) - 1)) ELSE s

\* String.prototype.trim
Trim(s) == TrimEnd(TrimStart(s))

Digits == {"0", "1", "2", "3", "4", "5", "6", "7", "8", "9"}

DigitVal(c) ==
    CASE c = "0" -> 0 [] c = "1" -> 1 [] c = "2" -> 2 [] c = "3" -> 3 [] c = "4" -> 4
      [] c = "5" -> 5 [] c = "6" -> 6 [] c = "7" -> 7 [] c = "8" -> 8 [] c = "9" -> 9

RECURSIVE NumVal(_)
NumVal(s) == IF s = <<>> THEN 0 ELSE 10 * NumVal(SubSeq(s, 1, Len(s) - 1)) + DigitVal(s[Len(s)])

\* A property name that is an array index: a canonical numeric string below
\* 2^32 - 1.  OrdinaryOwnPropertyKeys lists these first, in ascending order.
IsArrayIndex(k) ==
    /\ k # <<>>
    /\ \A n \in 1..Len(k) : k[n] \in Digits
    /\ (Len(k) = 1 \/ k[1] # "0")
    /\ \/ Len(k) < 10
       \/ /\ Len(k) = 10
          /\ LET hi == NumVal(SubSeq(k, 1, 9))
             IN  hi < 429496729 \/ (hi = 429496729 /\ DigitVal(k[10]) < 5)

\* Object.keys(obj)
Keys(obj) == [n \in 1..Len(obj) |-> obj[n].k]

HasKey(obj, k) == \E n \in 1..Len(obj) : obj[n].k = k

\* undefined as a value held where a string may be: unequal to every string.
UndefinedValue == <<Undefined>>

\* null held where a message may be: unequal to every message.
Null == <<"null">>

\* obj[k], undefined when obj has no such property.
Get(obj, k) ==
    IF HasKey(obj, k) THEN obj[CHOOSE n \in 1..Len(obj) : obj[n].k = k].v ELSE UndefinedValue

\* Where a new property named k is enumerated: array indices ascending, then
\* the other names in the order they were created.
InsertAt(obj, k) ==
    IF IsArrayIndex(k)
    THEN LET later == {n \in 1..Len(obj) :
                          ~IsArrayIndex(obj[n].k) \/ NumVal(obj[n].k) > NumVal(k)}
         IN  IF later = {} THEN Len(obj) + 1
             ELSE CHOOSE n \in later : \A m \in later : n <= m
    ELSE Len(obj) + 1

\* obj[k] = v for a string v on an object created by {}.  obj["__proto__"] = v
\* calls the setter inherited from Object.prototype, which ignores a value
\* that is neither an object nor null: no own property is created.
ObjSet(obj, k, v) ==
    IF k = ProtoKey THEN obj
    ELSE IF HasKey(obj, k)
    THEN [n \in 1..Len(obj) |-> IF obj[n].k = k THEN [k |-> k, v |-> v] ELSE obj[n]]
    ELSE LET at == InsertAt(obj, k)
         IN  SubSeq(obj, 1, at - 1) \o <<[k |-> k, v |-> v]>> \o SubSeq(obj, at, Len(obj))

(***************************************************************************)
(* parseCSV: the scan loop.                                                *)
(***************************************************************************)
\* The state of the scan before the first iteration (line 47).
ScanInit == [i |-> 0, cur |-> <<>>, row |-> <<>>, rows |-> <<>>, inQuotes |-> FALSE]

\* Lines 50-56: the character at i while inside a quoted field.
InQuotesStep(s_raw, s) ==
    LET ch == CharAt(s_raw, s.i)
    IN  IF ch = "\""
        THEN IF CharAt(s_raw, s.i + 1) = "\""
             THEN [s EXCEPT !.cur = Append(@, "\""), !.i = @ + 2]
             ELSE [s EXCEPT !.inQuotes = FALSE, !.i = @ + 1]
        ELSE [s EXCEPT !.cur = Append(@, ch), !.i = @ + 1]

\* TerminatorStep advancing only over a CR LF pair: a lone CR or LF is
\* handled without i++.
TerminatorStep_NoAdvance(s_raw, s) ==
    LET ch == CharAt(s_raw, s.i)
    IN  [s EXCEPT !.i = IF ch = "\r" /\ CharAt(s_raw, s.i + 1) = "\n" THEN @ + 2 ELSE @,
                  !.rows = Append(@, Append(s.row, s.cur)),
                  !.row = <<>>,
                  !.cur = <<>>]

\* TerminatorStep without the skip of the line feed after a carriage return.
TerminatorStep_NoCrLfSkip(s_raw, s) ==
    [s EXCEPT !.i = @ + 1,
              !.rows = Append(@, Append(s.row, s.cur)),
              !.row = <<>>,
              !.cur = <<>>]

\* Lines 59-66: a carriage return or line feed outside quotes ends the row;
\* the line feed of a CR LF pair is skipped.
TerminatorStep(s_raw, s) ==
    LET ch == CharAt(s_raw, s.i)
    IN  [s EXCEPT !.i = IF ch = "\r" /\ CharAt(s_raw, s.i + 1) = "\n" THEN @ + 2 ELSE @ + 1,
                  !.rows = Append(@, Append(s.row, s.cur)),
                  !.row = <<>>,
                  !.cur = <<>>]

\* One iteration of the while loop (lines 49-67) on scan state s.
ScanStep(s_raw, s) ==
    LET ch == CharAt(s_raw, s.i)
    IN  IF s.inQuotes THEN InQuotesStep(s_raw, s)
        ELSE IF ch = "\"" THEN [s EXCEPT !.inQuotes = TRUE, !.i = @ + 1]
        ELSE IF ch = "," THEN [s EXCEPT !.row = Append(@, s.cur), !.cur = <<>>, !.i = @ + 1]
        ELSE IF ch = "\r" \/ ch = "\n" THEN TerminatorStep(s_raw, s)
        ELSE [s EXCEPT !.cur = Append(@, ch), !.i = @ + 1]

\* The whole while loop (line 48): iterate while i < raw.length.
RECURSIVE ScanFrom(_, _)
ScanFrom(s_raw, s) ==
    IF s.i < Len(s_raw) THEN ScanFrom(s_raw, ScanStep(s_raw, s)) ELSE s

\* FlushRows testing the buffer alone (cur !== "").
FlushRows_BufferOnly(s) ==
    IF s.cur # <<>>
    THEN [s EXCEPT !.row = Append(@, s.cur), !.rows = Append(@, Append(s.row, s.cur))]
    ELSE s

\* Line 69: at end of input, push the buffer onto the row and the row onto
\* the rows when the buffer or the row holds anything.
FlushRows(s) ==
    IF s.cur # <<>> \/ Len(s.row) > 0
    THEN [s EXCEPT !.row = Append(@, s.cur), !.rows = Append(@, Append(s.row, s.cur))]
    ELSE s

\* FillObj setting no property for a position the row does not have.
RECURSIVE FillObj_SkipsAbsent(_, _, _, _)
FillObj_SkipsAbsent(obj, header, r, j) ==
    IF j > Len(header) THEN obj
    ELSE FillObj_SkipsAbsent(IF j <= Len(r) THEN ObjSet(obj, header[j], Trim(r[j])) ELSE obj,
                             header, r, j + 1)

\* Lines 73-75: one record, the header zipped with the cells of row r.
RECURSIVE FillObj(_, _, _, _)
FillObj(obj, header, r, j) ==
    IF j > Len(header) THEN obj
    ELSE FillObj(ObjSet(obj, header[j], IF j <= Len(r) THEN Trim(r[j]) ELSE <<>>),
                 header, r, j + 1)

\* BuildRecords mapping every row, the header row included (no slice(1)).
BuildRecords_KeepsHeader(rs) ==
    IF Len(rs) = 0 THEN <<>>
    ELSE LET header == [j \in 1..Len(rs[1]) |-> Trim(rs[1][j])]
         IN  [n \in 1..Len(rs) |-> FillObj(<<>>, header, rs[n], 1)]

\* Lines 70-76: no rows, no records; else row 0 is the header.
BuildRecords(rs) ==
    IF Len(rs) = 0 THEN <<>>
    ELSE LET header == [j \in 1..Len(rs[1]) |-> Trim(rs[1][j])]
         IN  [n \in 1..(Len(rs) - 1) |-> FillObj(<<>>, header, rs[n + 1], 1)]

\* parseCSV(raw) as a function of its argument.
parseCSV(s_raw) == BuildRecords(FlushRows(ScanFrom(s_raw, ScanInit)).rows)

(***************************************************************************)
(* parseCSV as a state machine: one action per branch of the loop body.    *)
(***************************************************************************)
Scan == [i |-> i, cur |-> cur, row |-> row, rows |-> rows, inQuotes |-> inQuotes]

SetScan(s) ==
    /\ i' = s.i
    /\ cur' = s.cur
    /\ row' = s.row
    /\ rows' = s.rows
    /\ inQuotes' = s.inQuotes

InLoop == pc = "scan" /\ i < Len(raw)

Iterate ==
    /\ SetScan(ScanStep(raw, Scan))
    /\ UNCHANGED <<raw, pc, out, fmtVars, fetchVars>>

\* Line 52: a doubled quote inside a quoted field.
EscapedQuote ==
    /\ InLoop /\ inQuotes /\ CharAt(raw, i) = "\"" /\ CharAt(raw, i + 1) = "\""
    /\ Iterate

\* Line 53: any other quote inside a quoted field closes it.
CloseQuote ==
    /\ InLoop /\ inQuotes /\ CharAt(raw, i) = "\"" /\ CharAt(raw, i + 1) # "\""
    /\ Iterate

\* Line 55: every other character inside a quoted field.
QuotedChar ==
    /\ InLoop /\ inQuotes /\ CharAt(raw, i) # "\""
    /\ Iterate

\* Line 57
OpenQuote ==
    /\ InLoop /\ ~inQuotes /\ CharAt(raw, i) = "\""
    /\ Iterate

\* Line 58
Comma ==
    /\ InLoop /\ ~inQuotes /\ CharAt(raw, i) = ","
    /\ Iterate

\* Lines 59-66
Terminator ==
    /\ InLoop /\ ~inQuotes /\ CharAt(raw, i) \in {"\r", "\n"}
    /\ Iterate

\* Line 67
PlainChar ==
    /\ InLoop /\ ~inQuotes /\ CharAt(raw, i) \notin {"\"", ",", "\r", "\n"}
    /\ Iterate

\* Line 48 false: leave the loop.
ExitLoop ==
    /\ pc = "scan" /\ ~(i < Len(raw))
    /\ pc' = "flush"
    /\ UNCHANGED <<raw, i, cur, row, rows, inQuotes, out, fmtVars, fetchVars>>

\* Line 69
Flush ==
    /\ pc = "flush"
    /\ SetScan(FlushRows(Scan))
    /\ pc' = "build"
    /\ UNCHANGED <<raw, out, fmtVars, fetchVars>>

\* Lines 70-76
Build ==
    /\ pc = "build"
    /\ out' = BuildRecords(rows)
    /\ pc' = "done"
    /\ UNCHANGED <<raw, i, cur, row, rows, inQuotes, fmtVars, fetchVars>>

\* parseCSV not called.
CsvIdle ==
    /\ raw = <<>>
    /\ i = 0
    /\ cur = <<>>
    /\ row = <<>>
    /\ rows = <<>>
    /\ inQuotes = FALSE
    /\ pc = "idle"
    /\ out = <<>>

\* The formatter not called.
FmtIdle ==
    /\ desc = <<>>
    /\ fpc = "idle"
    /\ fret = UndefinedValue
    /\ ferr = "none"
    /\ epc = "idle"
    /\ esc = UndefinedValue

\* No component mounted.
FetchIdle ==
    /\ component = "none"
    /\ csvUrlOk = FALSE
    /\ mounted = FALSE
    /\ items = <<>>
    /\ rowsFlat = <<>>
    /\ loading = TRUE
    /\ error = Null
    /\ started = 0
    /\ pending = {}
    /\ resText = UndefinedValue
    /\ answered = <<>>
    /\ busy = FALSE
    /\ message = Null
    /\ adminPending = 0

Init ==
    /\ raw \in Inputs
    /\ i = ScanInit.i
    /\ cur = ScanInit.cur
    /\ row = ScanInit.row
    /\ rows = ScanInit.rows
    /\ inQuotes = ScanInit.inQuotes
    /\ pc = "scan"
    /\ out = <<>>
    /\ FmtIdle
    /\ FetchIdle

Next ==
    \/ EscapedQuote
    \/ CloseQuote
    \/ QuotedChar
    \/ OpenQuote
    \/ Comma
    \/ Terminator
    \/ PlainChar
    \/ ExitLoop
    \/ Flush
    \/ Build

vars == <<csvVars, fmtVars, fetchVars>>

\* One call of parseCSV on any input up to MaxLen characters.
Spec == Init /\ [][Next]_vars

(***************************************************************************)
(* escapeHTML and formatDescriptionToHtml (src/src/PlywoodSimple.js 16-41). *)
(*                                                                         *)
(* formatDescriptionToHtml calls escapeHtml (line 28), a name the module   *)
(* neither defines nor imports: the function defined at line 16 is         *)
(* escapeHTML.  Evaluating the call throws a ReferenceError, so lines      *)
(* 29-40 (whose template literals are moreover left open at lines 30, 34   *)
(* and 35) are never reached by any call.                                  *)
(***************************************************************************)
MaxDescLen == 3

FormatAlphabet == {"&", "<", ">", "\"", "'", "*", "a", "\n"}

RECURSIVE DescsUpTo(_)
DescsUpTo(n) ==
    IF n = 0 THEN {<<>>}
    ELSE LET shorter == DescsUpTo(n - 1)
         IN  shorter \cup {Append(s, c) : s \in {t \in shorter : Len(t) = n - 1},
                                          c \in FormatAlphabet}

\* The arguments of a call: a string, or undefined (an absent description).
FormatInputs == DescsUpTo(MaxDescLen) \cup {UndefinedValue}

\* s.replace(/c/g, rep) for a one-character pattern c.
RECURSIVE ReplaceAll(_, _, _)
ReplaceAll(s, c, rep) ==
    IF s = <<>> THEN <<>>
    ELSE (IF Head(s) = c THEN rep ELSE <<Head(s)>>) \o ReplaceAll(Tail(s), c, rep)

\* Lines 16-24.  Line 17 returns "" for undefined; the empty string passes it
\* ("" != 0 is false) and runs through the replacements unchanged.
escapeHTML(s) ==
    IF s = UndefinedValue THEN <<>>
    ELSE LET s1 == ReplaceAll(s, "&", <<"&", "a", "m", "p", ";", "&">>)
             s2 == ReplaceAll(s1, "<", <<"&", "l", "t", ";">>)
             s3 == ReplaceAll(s2, ">", <<"&", "g", "t", ";">>)
             s4 == ReplaceAll(s3, "\"", <<"&", "q", "u", "o", "t", ";">>)
         IN  ReplaceAll(s4, "'", <<"&", "#", "3", "9", ";">>)

\* Line 27: !raw && raw !== 0.
IsAbsentOrEmpty(s) == s = UndefinedValue \/ s = <<>>

\* Line 27 true: return "".
FormatReturnEmpty ==
    /\ fpc = "call" /\ IsAbsentOrEmpty(desc)
    /\ fret' = <<>>
    /\ fpc' = "returned"
    /\ UNCHANGED <<desc, ferr, epc, esc, csvVars, fetchVars>>

\* Line 27 false: go on to line 28.
FormatEnter ==
    /\ fpc = "call" /\ ~IsAbsentOrEmpty(desc)
    /\ fpc' = "escape"
    /\ UNCHANGED <<desc, fret, ferr, epc, esc, csvVars, fetchVars>>

\* Line 28: escapeHtml is not defined; the call throws.
FormatCallEscapeHtml ==
    /\ fpc = "escape"
    /\ ferr' = "ReferenceError"
    /\ fpc' = "threw"
    /\ UNCHANGED <<desc, fret, epc, esc, csvVars, fetchVars>>

\* A call of escapeHTML, the function defined at line 16, on the same argument.
EscapeHTMLCall ==
    /\ epc = "call"
    /\ esc' = escapeHTML(desc)
    /\ epc' = "returned"
    /\ UNCHANGED <<desc, fpc, fret, ferr, csvVars, fetchVars>>

FormatInit ==
    /\ desc \in FormatInputs
    /\ fpc = "call"
    /\ fret = UndefinedValue
    /\ ferr = "none"
    /\ epc = "call"
    /\ esc = UndefinedValue
    /\ CsvIdle
    /\ FetchIdle

FormatNext ==
    \/ FormatReturnEmpty
    \/ FormatEnter
    \/ FormatCallEscapeHtml
    \/ EscapeHTMLCall

\* One call of formatDescriptionToHtml and one of escapeHTML on any argument.
SpecFormat == FormatInit /\ [][FormatNext]_vars

(***************************************************************************)
(* The sheet fetch: fetchCsv of PlywoodSimple (src/src/PlywoodSimple.js    *)
(* 79-105) and fetchSheet of PlywoodSinglePhoto (src/unnamed/part_000      *)
(* 57-87).  A request issued by fetch() stays pending until the network    *)
(* answers it: with an OK response and its body, with a non-OK status, or  *)
(* with a rejection.  Requests are numbered in the order they were issued. *)
(* adminRequest of PlywoodSinglePhoto (part_000 89-124) posts an edit and  *)
(* calls fetchSheet again when the endpoint accepts it.                    *)
(***************************************************************************)
MaxFetches == 3

Components == {"PlywoodSimple", "PlywoodSinglePhoto"}

VisibleKey == <<"v", "i", "s", "i", "b", "l", "e">>

TrueText == <<"t", "r", "u", "e">>

\* Bodies the published sheet may answer with.
SheetTexts ==
    LET id == <<"i", "d">>
        nl == <<"\n">>
        c == <<",">>
    IN  { \* the empty sheet
          <<>>,
          \* a superset of columns; visible empty, true, 1 and 0
          id \o c \o VisibleKey \o c \o <<"x">> \o nl
             \o <<"1">> \o c \o c \o <<"a">> \o nl
             \o <<"2">> \o c \o TrueText \o c \o <<"b">> \o nl
             \o <<"3">> \o c \o <<"1">> \o c \o <<"c">> \o nl
             \o <<"4">> \o c \o <<"0">> \o c \o <<"d">>,
          \* a subset of columns without the visible column
          id \o nl \o <<"1">> \o nl \o <<"2">> \o nl,
          \* blanks around the value, another spelling, a short row
          VisibleKey \o c \o id \o <<"\r", "\n">>
             \o <<" ", "1", " ">> \o c \o <<"1">> \o <<"\r", "\n">>
             \o <<"T", "R", "U", "E">> \o c \o <<"2">> \o <<"\r", "\n">>
             \o <<"\"", "\"">> \o c \o <<"3">>,
          \* every row hidden
          VisibleKey \o nl \o <<"n", "o">> \o nl }

\* String.prototype.includes
Includes(s, sub) ==
    \E n \in 0..(Len(s) - Len(sub)) : SubSeq(s, n + 1, n + Len(sub)) = sub

\* The text the guard of the fetch looks for (PlywoodSimple.js 88, part_000 73).
ReplaceWith == <<"R", "E", "P", "L", "A", "C", "E", "_", "W", "I", "T", "H">>

\* A published sheet address.
SheetUrl == <<"h", "t", "t", "p", "s", ":", "/", "/", "s", "/", "p", "u", "b", "?", "o", "=", "c", "s", "v">>

\* process.env.REACT_APP_CSV_URL: unset, empty, still the placeholder of the
\* sample environment file, or a sheet address.
EnvCsvUrls ==
    { UndefinedValue, <<>>, ReplaceWith \o <<"_", "U", "R", "L">>, SheetUrl }

\* The right-hand side of || at PlywoodSimple.js line 14 (the author's sheet)
\* and at part_000 line 13 ("REPLACE_WITH_YOUR_CSV_URL").
DefaultCsvUrl(comp) ==
    IF comp = "PlywoodSimple" THEN SheetUrl
    ELSE ReplaceWith \o <<"_", "Y", "O", "U", "R", "_", "C", "S", "V", "_", "U", "R", "L">>

\* CSV_URL = process.env.REACT_APP_CSV_URL || default
CsvUrl(comp, env) ==
    IF env = UndefinedValue \/ env = <<>> THEN DefaultCsvUrl(comp) ELSE env

\* The negation of the guard !CSV_URL || CSV_URL.includes("REPLACE_WITH").
UrlUsable(url) == ~(url = <<>> \/ Includes(url, ReplaceWith))

\* Statuses of a response that is not OK.
NotOkStatuses == {"404", "500"}

\* The message of the rejection of fetch() or of res.text().
NetworkMessage == <<"Failed to fetch">>

\* PlywoodSimple.js line 89, part_000 line 74.
PlaceholderMessage(comp) ==
    IF comp = "PlywoodSimple"
    THEN <<"Set REACT_APP_CSV_URL in .env.local or environment.">>
    ELSE <<"Please set REACT_APP_CSV_URL in .env.local or env.">>

\* PlywoodSimple.js line 95, part_000 line 79.
NotOkMessage(comp, status) ==
    IF comp = "PlywoodSimple" THEN <<"Failed to fetch CSV: ", status>>
    ELSE <<"Fetch failed ", status>>

\* FilterVisible accepting the blank and "true" only (as the comment at
\* PlywoodSimple.js line 98 words it).
RECURSIVE FilterVisible_BlankOrTrue(_)
FilterVisible_BlankOrTrue(parsed) ==
    IF parsed = <<>> THEN <<>>
    ELSE LET r == Head(parsed)
             rest == FilterVisible_BlankOrTrue(Tail(parsed))
         IN  IF Get(r, VisibleKey) = <<>> \/ Get(r, VisibleKey) = TrueText
             THEN <<r>> \o rest ELSE rest

\* PlywoodSimple.js line 99, part_000 line 83:
\* parsed.filter(r => r.visible === "" || r.visible === "true" || r.visible === "1")
RECURSIVE FilterVisible(_)
FilterVisible(parsed) ==
    IF parsed = <<>> THEN <<>>
    ELSE LET r == Head(parsed)
             rest == FilterVisible(Tail(parsed))
         IN  IF \/ Get(r, VisibleKey) = <<>>
                \/ Get(r, VisibleKey) = TrueText
                \/ Get(r, VisibleKey) = <<"1">>
             THEN <<r>> \o rest ELSE rest

\* StartFetch without the guard on CSV_URL: the request is always issued.
StartFetch_NoUrlGuard ==
    /\ loading' = TRUE
    /\ error' = Null
    /\ started' = started + 1
    /\ pending' = pending \cup {started + 1}

\* The body of fetchCsv / fetchSheet up to the call of fetch()
\* (PlywoodSimple.js 87-94, part_000 72-78).
StartFetch ==
    IF ~csvUrlOk
    THEN /\ error' = PlaceholderMessage(component)
         /\ loading' = FALSE
         /\ UNCHANGED <<started, pending>>
    ELSE /\ loading' = TRUE
         /\ error' = Null
         /\ started' = started + 1
         /\ pending' = pending \cup {started + 1}

\* useEffect(() => { fetchCsv(); }, []) / useEffect(() => { fetchSheet(); }, [])
Mount ==
    /\ component \in Components /\ ~mounted
    /\ mounted' = TRUE
    /\ StartFetch
    /\ UNCHANGED <<component, csvUrlOk, items, rowsFlat, resText, answered,
                   busy, message, adminPending, csvVars, fmtVars>>

\* The Refresh button of PlywoodSinglePhoto (part_000 line 150).  Every admin
\* request in flight may still start a fetch of its own.
Refresh ==
    /\ component = "PlywoodSinglePhoto" /\ mounted
    /\ started + adminPending < MaxFetches
    /\ StartFetch
    /\ UNCHANGED <<component, csvUrlOk, mounted, items, rowsFlat, resText, answered,
                   busy, message, adminPending, csvVars, fmtVars>>

\* An OK response with its body (PlywoodSimple.js 96-101, part_000 80-85).
ResponseOk(id, text) ==
    /\ id \in pending
    /\ LET parsed == parseCSV(text)
       IN  /\ rowsFlat' = IF component = "PlywoodSinglePhoto" THEN parsed ELSE rowsFlat
           /\ items' = FilterVisible(parsed)
    /\ loading' = FALSE
    /\ pending' = pending \ {id}
    /\ resText' = text
    /\ answered' = answered @@ (id :> [ok |-> TRUE, text |-> text])
    /\ UNCHANGED <<component, csvUrlOk, mounted, error, started,
                   busy, message, adminPending, csvVars, fmtVars>>

\* A response that is not OK: the throw at PlywoodSimple.js 95 / part_000 79,
\* caught at 102-104 / 86.
ResponseNotOk(id, status) ==
    /\ id \in pending
    /\ error' = NotOkMessage(component, status)
    /\ loading' = FALSE
    /\ pending' = pending \ {id}
    /\ answered' = answered @@ (id :> [ok |-> FALSE, text |-> NotOkMessage(component, status)])
    /\ UNCHANGED <<component, csvUrlOk, mounted, items, rowsFlat, started, resText,
                   busy, message, adminPending, csvVars, fmtVars>>

\* fetch() or res.text() rejects: caught at PlywoodSimple.js 102-104 / part_000 86.
NetworkError(id) ==
    /\ id \in pending
    /\ error' = NetworkMessage
    /\ loading' = FALSE
    /\ pending' = pending \ {id}
    /\ answered' = answered @@ (id :> [ok |-> FALSE, text |-> NetworkMessage])
    /\ UNCHANGED <<component, csvUrlOk, mounted, items, rowsFlat, started, resText,
                   busy, message, adminPending, csvVars, fmtVars>>

\* The banner of an accepted and of a refused admin request (part_000 101-102,
\* 116-117, 122, 130); the wording comes from the endpoint.
SuccessMessage == <<"success">>

ErrorMessage == <<"error">>

\* adminRequest up to its first await (part_000 90-98, 107-111).
AdminSend ==
    /\ component = "PlywoodSinglePhoto" /\ mounted
    /\ started + adminPending < MaxFetches
    /\ busy' = TRUE
    /\ message' = Null
    /\ adminPending' = adminPending + 1
    /\ UNCHANGED <<component, csvUrlOk, mounted, items, rowsFlat, loading, error, started,
                   pending, resText, answered, csvVars, fmtVars>>

\* saveEdit on a row with id and category (part_000 129-133); the Save button
\* is disabled while busy (line 211).
SaveEdit == ~busy /\ AdminSend

\* saveEdit on a row without id or category (part_000 130): no request.
SaveEditIncomplete ==
    /\ component = "PlywoodSinglePhoto" /\ mounted
    /\ ~busy
    /\ message' = ErrorMessage
    /\ UNCHANGED <<component, csvUrlOk, mounted, items, rowsFlat, loading, error, started,
                   pending, resText, answered, busy, adminPending, csvVars, fmtVars>>

\* deleteRow, confirmed (part_000 134-137); the Delete buttons are not
\* disabled while busy (line 228).
DeleteRow == AdminSend

\* The endpoint accepts the request (part_000 99-104, 112-119): the banner,
\* then fetchSheet().
AdminResponseOk ==
    /\ adminPending > 0
    /\ adminPending' = adminPending - 1
    /\ busy' = FALSE
    /\ message' = SuccessMessage
    /\ StartFetch
    /\ UNCHANGED <<component, csvUrlOk, mounted, items, rowsFlat, resText, answered,
                   csvVars, fmtVars>>

\* The endpoint refuses the request (part_000 101, 116), or fetch() or
\* res.json() rejects (121-123): no fetchSheet().
AdminResponseFailed ==
    /\ adminPending > 0
    /\ adminPending' = adminPending - 1
    /\ busy' = FALSE
    /\ message' = ErrorMessage
    /\ UNCHANGED <<component, csvUrlOk, mounted, items, rowsFlat, loading, error, started,
                   pending, resText, answered, csvVars, fmtVars>>

\* useState initial values (PlywoodSimple.js 80-82, part_000 58-61).
FetchInit ==
    /\ component \in Components
    /\ \E env \in EnvCsvUrls : csvUrlOk = UrlUsable(CsvUrl(component, env))
    /\ mounted = FALSE
    /\ items = <<>>
    /\ rowsFlat = <<>>
    /\ loading = TRUE
    /\ error = Null
    /\ started = 0
    /\ pending = {}
    /\ resText = UndefinedValue
    /\ answered = <<>>
    /\ busy = FALSE
    /\ message = Null
    /\ adminPending = 0
    /\ CsvIdle
    /\ FmtIdle

FetchNext ==
    \/ Mount
    \/ Refresh
    \/ \E id \in 1..MaxFetches : \E text \in SheetTexts : ResponseOk(id, text)
    \/ \E id \in 1..MaxFetches : \E status \in NotOkStatuses : ResponseNotOk(id, status)
    \/ \E id \in 1..MaxFetches : NetworkError(id)
    \/ SaveEdit
    \/ SaveEditIncomplete
    \/ DeleteRow
    \/ AdminResponseOk
    \/ AdminResponseFailed

\* A mounted component, its fetches and their responses in any order.
SpecFetch == FetchInit /\ [][FetchNext]_vars

(***************************************************************************)
(* Helpers of the properties below.                                        *)
(***************************************************************************)
Range(s) == {s[n] : n \in 1..Len(s)}

LineFeed == <<"\n">>

\* Row 0 of the rows with each cell trimmed: the header.
Header == [j \in 1..Len(rows[1]) |-> Trim(rows[1][j])]

\* The last header position holding name k.
LastPos(header, k) ==
    CHOOSE j \in 1..Len(header) :
        header[j] = k /\ \A m \in 1..Len(header) : header[m] = k => m <= j

\* The first header position holding name k.
FirstPos(header, k) ==
    CHOOSE j \in 1..Len(header) :
        header[j] = k /\ \A m \in 1..Len(header) : header[m] = k => j <= m

\* The trimmed cell of row r at header position j, empty when r is shorter.
CellOrEmpty(r, j) == IF j <= Len(r) THEN Trim(r[j]) ELSE <<>>

(***************************************************************************)
(* C1                                                                      *)
(***************************************************************************)
\* C1: for every input string parseCSV terminates and returns a sequence:
\* until it has returned a step is always possible, every iteration of the
\* scan loop moves i forward by at least 1 and never past the end of the
\* input, and a quote left open at end of input still leads to the flush.
C1_ScanTerminates ==
    /\ [](pc = "done" \/ ENABLED Next)
    /\ [][pc = "scan" /\ pc' = "scan" => i' >= i + 1 /\ i' <= Len(raw)]_vars
    /\ [](pc # "scan" => i = Len(raw))
    /\ [](pc = "done" => out \in Seq(Seq([k : Seq(Range(raw)), v : Seq(Range(raw))])))

\* An input of full length whose last quote is never closed has been decoded.
C1_Witness == pc = "done" /\ inQuotes /\ Len(raw) = MaxLen /\ rows # <<>>

(***************************************************************************)
(* C2                                                                      *)
(***************************************************************************)
\* The names of the header in header order, a repeated name kept at its
\* first position only (a mapping holds a name once).
RECURSIVE FirstOccurrences(_, _)
FirstOccurrences(header, j) ==
    IF j > Len(header) THEN <<>>
    ELSE IF FirstPos(header, header[j]) = j
         THEN <<header[j]>> \o FirstOccurrences(header, j + 1)
         ELSE FirstOccurrences(header, j + 1)

\* C2 as claimed: every record's keys are the header's trimmed cells, in
\* header order (stated here for the headers without a column __proto__,
\* which C7 covers).
C2_KeysInHeaderOrder ==
    (pc = "done" /\ Len(rows) > 0 /\ ProtoKey \notin Range(Header)) =>
        \A n \in 1..Len(out) : Keys(out[n]) = FirstOccurrences(Header, 1)

\* The order Object.keys gives two names p before q of one record: array
\* indices first and ascending, then the other names by first occurrence in
\* the header.
EnumeratedBefore(header, p, q) ==
    \/ IsArrayIndex(p) /\ ~IsArrayIndex(q)
    \/ IsArrayIndex(p) /\ IsArrayIndex(q) /\ NumVal(p) < NumVal(q)
    \/ ~IsArrayIndex(p) /\ ~IsArrayIndex(q) /\ FirstPos(header, p) < FirstPos(header, q)

\* C2 amended: every record of one call has the distinct trimmed header cells
\* (but never the name __proto__) as its keys, in one order shared by all
\* records (header order of first occurrence, array-index names first and
\* ascending); each key holds the trimmed cell at the last header position of
\* that name, the empty string when the row is too short; cells beyond the
\* header are dropped.
C2_KeysAreHeaderNames ==
    (pc = "done" /\ Len(rows) > 0) =>
        \A n \in 1..Len(out) :
            LET obj == out[n]
                r == rows[n + 1]
            IN  /\ Range(Keys(obj)) = Range(Header) \ {ProtoKey}
                /\ Len(obj) = Cardinality(Range(Header) \ {ProtoKey})
                /\ Len(obj) <= Len(Header)
                /\ \A a, b \in 1..Len(obj) :
                       a < b => EnumeratedBefore(Header, obj[a].k, obj[b].k)
                /\ \A a \in 1..Len(obj) :
                       obj[a].v = CellOrEmpty(r, LastPos(Header, obj[a].k))

\* A row shorter than a header whose names Object.keys reorders.
C2_Witness ==
    /\ pc = "done"
    /\ Len(out) >= 1
    /\ Len(rows[2]) < Len(rows[1])
    /\ Keys(out[1]) # Header
    /\ \E a \in 1..Len(out[1]) : out[1][a].v = <<>>

(***************************************************************************)
(* C3                                                                      *)
(***************************************************************************)
\* Quoted content q written as a CSV cell: each quote doubled, in quotes.
RECURSIVE DoubleQuotes(_)
DoubleQuotes(q) ==
    IF q = <<>> THEN <<>>
    ELSE (IF Head(q) = "\"" THEN <<"\"", "\"">> ELSE <<Head(q)>>) \o DoubleQuotes(Tail(q))

QuotedCell(q) == <<"\"">> \o DoubleQuotes(q) \o <<"\"">>

\* A sheet of one column "a" and one data row holding the quoted cell q.
OneQuotedCellSheet(q) == <<"a", "\n">> \o QuotedCell(q)

\* Quoted content that holds a comma, a carriage return, a line feed or a
\* quote, and no blank.
SpecialContent(n) ==
    {q \in StringsUpTo(n) : q # <<>> /\ Range(q) \subseteq {",", "\r", "\n", "\"", "a"}
                                     /\ Range(q) # {"a"}}

\* C3: commas, carriage returns and line feeds inside a quoted field are
\* preserved literally in the decoded cell value, and a doubled quote decodes
\* to one quote, at every position of the quoted content: the sheet whose only
\* data cell is the quoted content q decodes to one record whose value is q.
C3_QuotedContentPreserved ==
    pc = "done" =>
        \A q \in SpecialContent(MaxLen - 4) :
            raw = OneQuotedCellSheet(q) => out = << <<[k |-> <<"a">>, v |-> q]>> >>

(***************************************************************************)
(* C4                                                                      *)
(***************************************************************************)
\* A single row: no carriage return or line feed but for one final terminator.
HeaderOnly(s) ==
    LET body == IF Len(s) >= 2 /\ s[Len(s) - 1] = "\r" /\ s[Len(s)] = "\n"
                    THEN SubSeq(s, 1, Len(s) - 2)
                ELSE IF Len(s) >= 1 /\ s[Len(s)] \in {"\r", "\n"}
                    THEN SubSeq(s, 1, Len(s) - 1)
                ELSE s
    IN  Range(body) \cap {"\r", "\n"} = {}

\* C4: parseCSV returns one record per decoded row after the header row, in
\* input order (record n holds the cells of row n + 1); the empty string and
\* a header-only input give the empty sequence.
C4_OneRecordPerDataRow ==
    pc = "done" =>
        /\ Len(out) = (IF Len(rows) = 0 THEN 0 ELSE Len(rows) - 1)
        /\ \A n \in 1..Len(out) : \A j \in 1..Len(Header) :
               Header[j] # ProtoKey =>
                   Get(out[n], Header[j]) = CellOrEmpty(rows[n + 1], LastPos(Header, Header[j]))
        /\ (raw = <<>> \/ HeaderOnly(raw)) => out = <<>>

\* Two different records, in the order of their rows.
C4_Witness ==
    /\ pc = "done"
    /\ Len(out) = 2
    /\ Get(out[1], <<"a">>) = <<"1">>
    /\ Get(out[2], <<"a">>) = <<"a">>

(***************************************************************************)
(* C5                                                                      *)
(***************************************************************************)
Terminators == {<<"\n">>, <<"\r">>, <<"\r", "\n">>}

\* The text s from (1-based) position n on, with every row terminator outside
\* a quoted field (a CR LF pair, a lone CR, a lone LF) written as t; q tells
\* whether position n is inside a quoted field.
RECURSIVE WithTerminator(_, _, _, _)
WithTerminator(s, n, q, t) ==
    IF n > Len(s) THEN <<>>
    ELSE LET c == s[n]
             d == IF n < Len(s) THEN s[n + 1] ELSE Undefined
         IN  IF q
             THEN IF c = "\"" /\ d = "\"" THEN <<c, d>> \o WithTerminator(s, n + 2, TRUE, t)
                  ELSE <<c>> \o WithTerminator(s, n + 1, c # "\"", t)
             ELSE IF c = "\"" THEN <<c>> \o WithTerminator(s, n + 1, TRUE, t)
             ELSE IF c = "\r" /\ d = "\n" THEN t \o WithTerminator(s, n + 2, FALSE, t)
             ELSE IF c \in {"\r", "\n"} THEN t \o WithTerminator(s, n + 1, FALSE, t)
             ELSE <<c>> \o WithTerminator(s, n + 1, FALSE, t)

\* C5: outside a quoted field a CR LF pair ends exactly one row, and so does a
\* lone CR or a lone LF; the same rows written with any one of the three
\* terminators decode to the same records.
C5_TerminatorsEquivalent ==
    /\ [][(pc = "scan" /\ pc' = "scan" /\ ~inQuotes /\ CharAt(raw, i) \in {"\r", "\n"}) =>
            /\ rows' = Append(rows, Append(row, cur))
            /\ row' = <<>> /\ cur' = <<>> /\ ~inQuotes'
            /\ i' = (IF CharAt(raw, i) = "\r" /\ CharAt(raw, i + 1) = "\n" THEN i + 2 ELSE i + 1)
         ]_vars
    /\ [](pc = "done" => \A t \in Terminators : out = parseCSV(WithTerminator(raw, 1, FALSE, t)))

\* A CR LF pair between the header and a data row.
C5_Witness == pc = "done" /\ raw = <<"a", "\r", "\n", "1">> /\ Len(rows) = 2 /\ Len(out) = 1

(***************************************************************************)
(* C6                                                                      *)
(***************************************************************************)
\* The input ends outside a quoted field and not with a row terminator.
EndsInOpenRow == ~inQuotes /\ (raw = <<>> \/ raw[Len(raw)] \notin {"\r", "\n"})

\* C6 as claimed: every input that ends outside a quoted field and without a
\* row terminator decodes as it does with a line feed appended.
C6_FinalRowFlushed ==
    (pc = "done" /\ EndsInOpenRow) => out = parseCSV(raw \o LineFeed)

\* C6 amended: the same, for the inputs whose final row was flushed (buffer
\* non-empty or a field already pushed, so also a final empty field after a
\* comma) and for the inputs with no row at all; a final row that is nothing
\* but an empty quoted field is not flushed after an earlier row, and then the
\* append of a line feed adds exactly that row's record.
C6_FinalRowFlushedUnlessBareEmptyQuoted ==
    (pc = "done" /\ EndsInOpenRow) =>
        IF row # <<>> \/ rows = <<>>
        THEN out = parseCSV(raw \o LineFeed)
        ELSE /\ Len(raw) >= 2 /\ SubSeq(raw, Len(raw) - 1, Len(raw)) = <<"\"", "\"">>
             /\ Len(parseCSV(raw \o LineFeed)) = Len(out) + 1
             /\ SubSeq(parseCSV(raw \o LineFeed), 1, Len(out)) = out

\* A last record whose last field, after a comma, is empty, with no final
\* terminator.
C6_Witness ==
    /\ pc = "done" /\ EndsInOpenRow
    /\ raw = <<"a", ",", "\n", "1", ",">>
    /\ Len(out) = 1

(***************************************************************************)
(* C7                                                                      *)
(***************************************************************************)
NeedsQuotes(f) == Range(f) \cap {",", "\"", "\r", "\n"} # {}

EncodeField(f) == IF NeedsQuotes(f) THEN QuotedCell(f) ELSE f

\* The fields of one row joined by commas, ended by a line feed.
RECURSIVE EncodeRow(_)
EncodeRow(fs) ==
    IF Len(fs) = 0 THEN LineFeed
    ELSE IF Len(fs) = 1 THEN EncodeField(fs[1]) \o LineFeed
    ELSE EncodeField(fs[1]) \o <<",">> \o EncodeRow(Tail(fs))

RECURSIVE EncodeRows(_, _)
EncodeRows(rs, n) ==
    IF n > Len(rs) THEN <<>>
    ELSE EncodeRow([a \in 1..Len(rs[n]) |-> rs[n][a].v]) \o EncodeRows(rs, n + 1)

\* A record set as CSV: the keys of its records as the header row, then one
\* row per record, fields quoted where they need it, each row ended by a line
\* feed; no records, no text.
EncodeCSV(rs) == IF Len(rs) = 0 THEN <<>> ELSE EncodeRow(Keys(rs[1])) \o EncodeRows(rs, 1)

\* C7: re-encoding the records parseCSV returned (their keys and values carry
\* no surrounding whitespace) and decoding the text again gives the same
\* records.  It fails for a sheet whose only column is named __proto__: its
\* records have no key at all, and no CSV text decodes to such records.
C7_DecodeEncodeDecode ==
    pc = "done" =>
        /\ \A n \in 1..Len(out) : \A a \in 1..Len(out[n]) :
               Trim(out[n][a].k) = out[n][a].k /\ Trim(out[n][a].v) = out[n][a].v
        /\ parseCSV(EncodeCSV(out)) = out

(***************************************************************************)
(* C8                                                                      *)
(***************************************************************************)
\* The entity a character is to be escaped to; other characters stay.
Entity(c) ==
    CASE c = "&" -> <<"&", "a", "m", "p", ";">>
      [] c = "<" -> <<"&", "l", "t", ";">>
      [] c = ">" -> <<"&", "g", "t", ";">>
      [] c = "\"" -> <<"&", "q", "u", "o", "t", ";">>
      [] c = "'" -> <<"&", "#", "3", "9", ";">>
      [] OTHER -> <<c>>

\* Each character of s escaped once.
RECURSIVE EscapedOnce(_)
EscapedOnce(s) == IF s = <<>> THEN <<>> ELSE Entity(Head(s)) \o EscapedOnce(Tail(s))

\* No emphasis or line-break syntax in s: the output is the escaped text alone.
PlainText(s) == Range(s) \cap {"*", "\n", "\r"} = {}

\* C8: formatDescriptionToHtml escapes each of & < > " ' of the raw text to
\* its entity, once, before any other substitution: the escaping function
\* returns the text with each such character replaced by its entity, and the
\* formatter returns an output in which no < or > of the raw text is left
\* (for a text without emphasis or line breaks: exactly the escaped text).
C8_RawTextEscaped ==
    /\ (epc = "returned" /\ desc # UndefinedValue) => esc = EscapedOnce(desc)
    /\ (fpc \in {"returned", "threw"} /\ desc # UndefinedValue) =>
           /\ fpc = "returned"
           /\ PlainText(desc) => fret = EscapedOnce(desc)

(***************************************************************************)
(* C9                                                                      *)
(***************************************************************************)
\* C9: formatDescriptionToHtml is total: every call returns a string and
\* throws nothing, and an absent or empty argument gives the empty string.
C9_FormatTotal ==
    fpc \in {"returned", "threw"} =>
        /\ fpc = "returned"
        /\ ferr = "none"
        /\ fret # UndefinedValue
        /\ IsAbsentOrEmpty(desc) => fret = <<>>

(***************************************************************************)
(* C10                                                                     *)
(***************************************************************************)
\* The positions of the decoded records whose visible field is the empty
\* string, "true" or "1".
ShownPositions(parsed) ==
    {m \in 1..Len(parsed) :
        /\ HasKey(parsed[m], VisibleKey)
        /\ Get(parsed[m], VisibleKey) \in {<<>>, TrueText, <<"1">>}}

\* The n-th smallest element of a set of positions.
NthOf(S, n) == CHOOSE m \in S : Cardinality({x \in S : x <= m}) = n

\* C10: after every successful fetch the items shown are exactly the decoded
\* records whose visible field is the empty string, "true" or "1", in decoded
\* order, whatever columns the sheet has.
C10_ItemsAreVisibleRecords ==
    resText # UndefinedValue =>
        LET parsed == parseCSV(resText)
            shown == ShownPositions(parsed)
        IN  /\ Len(items) = Cardinality(shown)
            /\ \A n \in 1..Len(items) : items[n] = parsed[NthOf(shown, n)]

\* A sheet with an extra column whose four records have visible empty, true,
\* 1 and 0: the first three are shown, in order.
C10_Witness ==
    /\ resText # UndefinedValue
    /\ Len(parseCSV(resText)) = 4
    /\ Len(items) = 3
    /\ Len(items[1]) = 3
    /\ Get(items[3], VisibleKey) = <<"1">>
    /\ pending = {}

(***************************************************************************)
(* C11                                                                     *)
(***************************************************************************)
\* The messages a failed fetch can put in error.
FailureMessages ==
    {PlaceholderMessage(component), NetworkMessage}
        \cup {NotOkMessage(component, status) : status \in NotOkStatuses}

\* A step in which a request is answered with a rejection or a non-OK status.
RequestFails ==
    \E id \in pending : id \notin pending' /\ ~answered'[id].ok

\* A step in which the fetch is called while CSV_URL is empty or a placeholder.
FetchWithoutUrl == ~csvUrlOk /\ (Mount \/ Refresh \/ AdminResponseOk)

C12_LatestFetchShown ==
    component = "PlywoodSinglePhoto" =>
        /\ pending # {} => loading = TRUE
        /\ (pending = {} /\ started > 0) =>
              LET last == answered[started]
              IN  /\ last.ok => /\ rowsFlat = parseCSV(last.text)
                                /\ items = FilterVisible(parseCSV(last.text))
                  /\ error # Null => ~last.ok

=============================================================================
